---- MODULE Spec2Model ----
(***************************************************************************)
(* Model of the incremental multi-origin dynamics accumulator of           *)
(* statdyn/TimeDep.py: the single-origin tracker TimeDep2dRigid (periodic  *)
(* unwrapping, displacement, rotation with branch-cut correction) and the  *)
(* accumulator TimeDepMany (lazy origin creation, one HDF5 write per       *)
(* record, backup of an existing dataset on construction).                 *)
(*                                                                         *)
(* Numbers.  Positions, images and box lengths are integers; numpy.sqrt is *)
(* its integer part (exact on perfect squares).  An orientation is a unit  *)
(* quaternion of a rotation about the z axis (the simulations enforce 2D), *)
(* (cos f, 0, 0, sin f); it is held as its phase f in units of             *)
(* pi / (2 * PiUnits), an integer modulo 4 * PiUnits.  Angles are in units *)
(* of pi / PiUnits, so that pi is PiUnits.                                 *)
(***************************************************************************)
EXTENDS Integers, Sequences, FiniteSets, TLC

VARIABLES
    fs,     \* the disk: path -> NoFile, or the sequence of frames appended
    accs,   \* the TimeDepMany objects: instance -> NoAcc or its fields
    dyn,    \* a standalone TimeDep2dRigid (basic.py run_npt), or NoTracker
    feed,   \* the snapshots and timesteps the simulation loop hands to dyn
    run,    \* the activation of compute_motion: its arguments and locals
    viewer, \* interactive_config's module globals and widgets
    params, \* a SimulationParams object: its parameters dictionary
    last    \* the most recent call: its arguments, intermediates and outcome

vars == <<fs, accs, dyn, feed, run, viewer, params, last>>

-----------------------------------------------------------------------------
(* Bounds of the model *)

\* timesteps passed by callers are 0..MaxStep
MaxStep == 1
\* frames held on disk, over all files
MaxRows == 3
\* pi, in angle units: the resolution of the orientations
PiUnits == 2

-----------------------------------------------------------------------------
(* Values *)

None == "None"
\* a path that holds no file
NoFile == [exists |-> FALSE, rows |-> <<>>]
\* filename=None
NoName == <<>>
\* the attribute is missing (AttributeError on access)
NoAttr == <<>>
\* no tracker has been constructed
NoTracker == [timestep |-> None]

Steps == 0..MaxStep
\* the origin indices callers pass
Indices == {0, 1}
Axes == 1..3
Phases == 0..(4 * PiUnits - 1)

Max(S) == CHOOSE x \in S : \A y \in S : y <= x
Min2(x, y) == IF x <= y THEN x ELSE y
Range(s) == {s[i] : i \in DOMAIN s}

\* numpy.sqrt on a non-negative integer: the integer part of the root
Sqrt(n) == CHOOSE r \in 0..n : r * r <= n /\ (r + 1) * (r + 1) > n

\* array[:k]
Take(s, k) == SubSeq(s, 1, Min2(k, Len(s)))

Zero3 == <<0, 0, 0>>

-----------------------------------------------------------------------------
(* Snapshots.  A hoomd snapshot has box.Lx, box.Ly, box.Lz, held here as    *)
(* box = (Lx, Ly, Lz); a gsd frame has no box attribute and holds           *)
(* configuration.box = (Lx, Ly, Lz, xy, xz, yz), held as cbox.              *)

HoomdSnapshot(L, pos, img, ori, bod) ==
    [box |-> L, cbox |-> NoAttr,
     step |-> 0, position |-> pos, image |-> img, orientation |-> ori,
     body |-> bod]

GsdFrame(st, L, pos, img, ori, bod) ==
    [box |-> NoAttr, cbox |-> <<L[1], L[2], L[3], 0, 0, 0>>,
     step |-> st, position |-> pos, image |-> img, orientation |-> ori,
     body |-> bod]

\* body ids of two particles: one rigid body and a constituent particle of
\* it, or two rigid-body centres
BodyArrays == {<<0, 0>>, <<0, 1>>}

Positions == {<<9, 0, 0>>, <<1, 0, 0>>, <<0, 3, 4>>}
Images == {Zero3, <<1, 0, 0>>, <<0, -1, 1>>}

\* snapshots that differ in positions and images
MovedSnapshots ==
    { HoomdSnapshot(L, <<p, q>>, <<i, j>>, <<0, 0>>, b) :
        L \in {<<10, 10, 10>>}, p \in Positions, q \in {<<1, 0, 0>>, <<0, 3, 4>>},
        i \in Images, j \in {Zero3, <<1, 0, 0>>}, b \in BodyArrays }
    \cup
    { GsdFrame(0, L, <<p, q>>, <<i, j>>, <<0, 0>>, <<0, 1>>) :
        L \in {<<4, 6, 8>>}, p \in {<<1, 0, 0>>}, q \in {<<0, 3, 4>>},
        i \in Images, j \in {Zero3, <<1, 0, 0>>} }

\* snapshots that differ in orientations
TurnedSnapshots ==
    { HoomdSnapshot(<<10, 10, 10>>, <<Zero3, <<1, 0, 0>>>>, <<Zero3, Zero3>>,
                    <<f, g>>, b) :
        f \in Phases, g \in {0, 3 * PiUnits}, b \in BodyArrays }

Snapshots == MovedSnapshots \cup TurnedSnapshots

\* the frames of a small trajectory file, as compute_motion reads them
Frames ==
    { GsdFrame(0, <<10, 10, 10>>, <<(<<9, 0, 0>>), (<<0, 3, 4>>)>>,
               <<Zero3, (<<1, 0, 0>>)>>, <<0, 1>>, <<0, 1>>),
      GsdFrame(1, <<10, 10, 10>>, <<(<<1, 0, 0>>), (<<0, 3, 4>>)>>,
               <<(<<1, 0, 0>>), (<<1, 0, 0>>)>>, <<PiUnits + 1, 0>>, <<0, 1>>) }

-----------------------------------------------------------------------------
(* Paths.  A file name is the sequence of its dot-separated parts:          *)
(* Trimer-13.50.gsd is <<"Trimer-13", "50", "gsd">>.                        *)

\* pathlib's with_suffix: the last part is the suffix when there is one
WithSuffix(p, suf) ==
    IF Len(p) > 1 THEN SubSeq(p, 1, Len(p) - 1) \o suf ELSE p \o suf

\* TimeDepMany.__init__: the dataset path
DatasetPath(filename) ==
    IF filename # NoName THEN WithSuffix(filename, <<"hdf5">>)
    ELSE <<"TimeDepMany", "hdf5">>

BackupPath(path) == WithSuffix(path, <<"hdf5", "bak">>)

FileNames == {NoName, <<"Trimer", "gsd">>}

\* Path.stem: the name without its last suffix
Stem(p) == IF Len(p) > 1 THEN SubSeq(p, 1, Len(p) - 1) ELSE p

\* trajectory files handed to compute_motion: the parts of a name between
\* its dots, as in Trimer-13.50-3.00.gsd
TrajectoryNames ==
    {<<"Trimer", "gsd">>,
     <<"Trimer-13", "50-3", "00", "gsd">>,
     <<"Trimer-13", "50-3", "50", "gsd">>}

\* compute_motion: the file name handed to TimeDepMany
OutFile(filename, outdir) == IF outdir THEN Stem(filename) ELSE filename

DiskPaths ==
    LET names == FileNames \cup {OutFile(f, d) : f \in TrajectoryNames, d \in BOOLEAN}
    IN {DatasetPath(f) : f \in names} \cup {BackupPath(DatasetPath(f)) : f \in names}

Exists(disk, path) == disk[path].exists
Rows(disk, path) == disk[path].rows

RECURSIVE SumLen(_, _)
SumLen(disk, paths) ==
    IF paths = {} THEN 0
    ELSE LET p == CHOOSE x \in paths : TRUE
         IN Len(Rows(disk, p)) + SumLen(disk, paths \ {p})

TotalRows(disk) == SumLen(disk, DiskPaths)

-----------------------------------------------------------------------------
(* TimeDep / TimeDep2dRigid *)

\* a faulty get_time_diff, which forgets the capture timestep
GetTimeDiffAbsolute(tr, timestep) == timestep

\* TimeDep.get_time_diff
GetTimeDiff(tr, timestep) == timestep - tr.timestep

\* TimeDep._unwrap: the box lengths, from either snapshot representation
BoxDim(snap) ==
    IF snap.box # NoAttr THEN <<snap.box[1], snap.box[2], snap.box[3]>>
    ELSE <<snap.cbox[1], snap.cbox[2], snap.cbox[3]>>

\* a faulty _unwrap, which forgets the image at capture
UnwrapNoOrigin(image_init, snap) ==
    [i \in 1..Len(snap.position) |->
        [k \in Axes |-> snap.position[i][k] + snap.image[i][k] * BoxDim(snap)[k]]]

\* TimeDep._unwrap: pos + (image - image_init) * box_dim
Unwrap(image_init, snap) ==
    [i \in 1..Len(snap.position) |->
        [k \in Axes |->
            snap.position[i][k]
                + (snap.image[i][k] - image_init[i][k]) * BoxDim(snap)[k]]]

\* a faulty norm, which forgets the square root
NormsSquared(curr, init) ==
    [i \in 1..Len(curr) |->
        (curr[i][1] - init[i][1]) * (curr[i][1] - init[i][1])
            + (curr[i][2] - init[i][2]) * (curr[i][2] - init[i][2])
            + (curr[i][3] - init[i][3]) * (curr[i][3] - init[i][3])]

\* sqrt(power(curr - init, 2).sum(1)), row by row
Norms(curr, init) ==
    [i \in 1..Len(curr) |->
        Sqrt((curr[i][1] - init[i][1]) * (curr[i][1] - init[i][1])
             + (curr[i][2] - init[i][2]) * (curr[i][2] - init[i][2])
             + (curr[i][3] - init[i][3]) * (curr[i][3] - init[i][3]))]

\* TimeDep2dRigid._all_displacement
AllDisplacement(tr, snap) ==
    Norms(Unwrap(tr.image_init, snap), tr.pos_init)

\* a faulty _displacement, which forgets the [:self.bodies] slices
DisplacementUnsliced(tr, snap) ==
    Norms(Unwrap(tr.image_init, snap), tr.pos_init)

\* TimeDep2dRigid._displacement: the first tr.bodies rows
Displacement(tr, snap) ==
    Norms(Take(Unwrap(tr.image_init, snap), tr.bodies),
          Take(tr.pos_init, tr.bodies))

\* quaternion division of two rotations about z: the phases subtract
QuatDiv(f, g) == (f - g) % (4 * PiUnits)

\* quaternion.as_rotation_vector: 2 * log(q); the angle atan2(|v|, w) of the
\* logarithm lies in [0, pi], its sign is that of the vector part, and the
\* logarithm of -1 is taken along x
AsRotationVector(p) ==
    IF p = 2 * PiUnits THEN <<2 * PiUnits, 0, 0>>
    ELSE IF p < 2 * PiUnits THEN <<0, 0, p>>
    ELSE <<0, 0, p - 4 * PiUnits>>

\* the rotation vectors summed over axis 1, before the branch-cut correction
RotationSums(tr, snap) ==
    LET orient_final == Take(snap.orientation, tr.bodies)
    IN [i \in 1..Len(orient_final) |->
            LET v == AsRotationVector(QuatDiv(orient_final[i], tr.orient_init[i]))
            IN v[1] + v[2] + v[3]]

\* a faulty correction, which tests rot < -pi
BranchCutStrict(s) ==
    LET r == IF s > PiUnits THEN s - 2 * PiUnits ELSE s
    IN IF r < -PiUnits THEN r + 2 * PiUnits ELSE r

\* rot[rot > pi] -= 2 pi; rot[rot <= -pi] += 2 pi
BranchCut(s) ==
    LET r == IF s > PiUnits THEN s - 2 * PiUnits ELSE s
    IN IF r <= -PiUnits THEN r + 2 * PiUnits ELSE r

\* TimeDep2dRigid._rotations
Rotations(tr, snap) ==
    LET s == RotationSums(tr, snap)
    IN [i \in 1..Len(s) |-> BranchCut(s[i])]

\* TimeDep2dRigid.get_data: the frame of displacements, rotations and time
GetData(tr, snap, timestep) ==
    [displacement |-> Displacement(tr, snap),
     rotation |-> Rotations(tr, snap),
     time |-> GetTimeDiff(tr, timestep),
     start_index |-> None]

\* TimeDep2dRigid._init_snapshot
NumBodies(snap) == Max(Range(snap.body)) + 1

\* TimeDep.__init__ with TimeDep2dRigid._init_snapshot
NewTracker(snap, timestep) ==
    LET tr == [t_init |-> snap,
               timestep |-> timestep,
               pos_init |-> snap.position,
               image_init |-> snap.image,
               bodies |-> NumBodies(snap),
               orient_init |-> Take(snap.orientation, NumBodies(snap))]
    IN [t_init |-> tr.t_init, timestep |-> tr.timestep,
        pos_init |-> tr.pos_init, image_init |-> tr.image_init,
        bodies |-> tr.bodies, orient_init |-> tr.orient_init,
        data |-> <<GetData(tr, snap, timestep)>>]

\* a faulty get_data, which keeps the frame it returns in self._data
AfterGetDataKept(tr, snap, timestep) ==
    [tr EXCEPT !.data = Append(@, GetData(tr, snap, timestep))]

\* TimeDep2dRigid.get_data, its effect on the tracker: it assigns nothing
\* to self
AfterGetData(tr, snap, timestep) == tr

\* the Origin of a tracker: what its constructor captured
Origin(tr) ==
    [pos_init |-> tr.pos_init, image_init |-> tr.image_init,
     orient_init |-> tr.orient_init, bodies |-> tr.bodies,
     timestep |-> tr.timestep]

\* a faulty append, which captures the snapshot as a new origin
TrackerAppendRecapture(tr, snap, timestep) ==
    [NewTracker(snap, timestep) EXCEPT
        !.data = Append(tr.data, GetData(tr, snap, timestep))]

\* a faulty append, which keeps only the newest frame
TrackerAppendReplace(tr, snap, timestep) ==
    [tr EXCEPT !.data = <<GetData(tr, snap, timestep)>>]

\* TimeDep2dRigid.append: self._data = self._data.append(self.get_data(...))
TrackerAppend(tr, snap, timestep) ==
    [tr EXCEPT !.data = Append(@, GetData(tr, snap, timestep))]

-----------------------------------------------------------------------------
(* TimeDepMany *)

Instances == {"A", "B"}

\* no TimeDepMany has been constructed
NoAcc ==
    [path |-> NoName, snapshots |-> <<>>, store |-> "none", buffer |-> <<>>,
     calls |-> 0]

NoSnapshots == <<>>

\* a faulty _check_files, which renames nothing
CheckFilesKeep(disk, path) == disk

\* TimeDepMany._check_files: an existing dataset is renamed to its backup
\* path (os.rename replaces a file already there)
CheckFiles(disk, path) ==
    IF Exists(disk, path)
    THEN [disk EXCEPT ![BackupPath(path)] = disk[path], ![path] = NoFile]
    ELSE disk

\* TimeDepMany.__init__; calls counts the record calls that returned
NewTimeDepMany(filename) ==
    [path |-> DatasetPath(filename),
     snapshots |-> NoSnapshots,
     store |-> "unopened",
     buffer |-> <<>>,
     calls |-> 0]

\* a faulty _write_file, which opens the store anew for every frame
WriteFileTruncate(disk, path, data) ==
    [disk EXCEPT ![path] = [exists |-> TRUE, rows |-> <<data>>]]

\* a faulty _write_file, which puts the frame before those already there
WriteFilePrepend(disk, path, data) ==
    [disk EXCEPT ![path] = [exists |-> TRUE,
                            rows |-> <<data>> \o Rows(disk, path)]]

\* TimeDepMany._write_file, what it does to the file: the frame is appended
\* after those already there
WriteFile(disk, path, data) ==
    [disk EXCEPT ![path] = [exists |-> TRUE,
                            rows |-> Append(Rows(disk, path), data)]]

\* pandas.HDFStore(str(self._path)): the store is opened for appending, the
\* file created when missing
OpenStore(disk, path) == [disk EXCEPT ![path].exists = TRUE]

\* a faulty _write_file, which leaves the store open and the frame unwritten
StoreLeftOpen(acc, disk) == [acc |-> acc, disk |-> disk]

\* the end of the with block, reached on return and on an exception alike:
\* the frame handed to dst.append is written to the file, the store closed
StoreClose(acc, disk) ==
    [acc |-> [acc EXCEPT !.store = "closed", !.buffer = <<>>],
     disk |-> IF acc.buffer = <<>> THEN disk
              ELSE WriteFile(disk, acc.path, acc.buffer[1])]

\* self._snapshots[index] raises KeyError for an index never registered
HasTracker(snapshots, index) == index \in DOMAIN snapshots

\* a faulty registration, which replaces the whole dictionary
SetTrackerOnly(snapshots, index, tr) == [i \in {index} |-> tr]

\* self._snapshots[index] = TimeDep2dRigid(snapshot, timestep)
SetTracker(snapshots, index, tr) ==
    [i \in DOMAIN snapshots \cup {index} |->
        IF i = index THEN tr ELSE snapshots[i]]

\* a faulty lookup, which observes from the first tracker registered
ObserveFirst(snapshots, index, snap, timestep) ==
    LET first == CHOOSE j \in DOMAIN snapshots : \A k \in DOMAIN snapshots : j <= k
    IN [GetData(snapshots[first], snap, timestep) EXCEPT !.start_index = index]

\* data = self._snapshots[index].get_data(...); data['start_index'] = index
Observe(snapshots, index, snap, timestep) ==
    [GetData(snapshots[index], snap, timestep) EXCEPT !.start_index = index]

\* TimeDep2dRigid._init_snapshot reads particles.body and
\* particles.orientation: a snapshot without one of them makes the
\* constructor raise
ConstructorRaises(snap) == snap.body = NoAttr \/ snap.orientation = NoAttr

\* TimeDep2dRigid._rotations reads particles.orientation
GetDataRaises(snap) == snap.orientation = NoAttr

\* TimeDepMany.append and TimeDepMany.add_init, which call each other.  wrs
\* lists the outcomes of the successive storage writes ("ok", or the name of
\* the exception raised); writes past the end of the list succeed.  The
\* result is the object and the disk afterwards, the exception that left
\* append ("none" when it returned), the number of add_init calls made, the
\* number of writes attempted and the frame handed to the write that
\* succeeded.
RECURSIVE ManyAppend(_, _, _, _, _, _, _)
RECURSIVE ManyAddInit(_, _, _, _, _, _, _)

\* a faulty add_init, which registers the tracker and writes nothing
ManyAddInitSilent(acc, disk, snap, index, timestep, wrs, inits) ==
    [acc |-> [acc EXCEPT !.snapshots =
                  SetTracker(acc.snapshots, index, NewTracker(snap, timestep))],
     disk |-> disk, raised |-> "none", inits |-> inits + 1, writes |-> 0,
     data |-> None]

\* a faulty add_init, which binds the index before the tracker is constructed
ManyAddInitBindFirst(acc, disk, snap, index, timestep, wrs, inits) ==
    IF ConstructorRaises(snap)
    THEN [acc |-> [acc EXCEPT !.snapshots =
                       SetTracker(acc.snapshots, index, NoTracker)],
          disk |-> disk, raised |-> "AttributeError", inits |-> inits + 1,
          writes |-> 0, data |-> None]
    ELSE ManyAppend([acc EXCEPT !.snapshots =
                         SetTracker(acc.snapshots, index,
                                    NewTracker(snap, timestep))],
                    disk, snap, index, timestep, wrs, inits + 1)

\* TimeDepMany.add_init
ManyAddInit(acc, disk, snap, index, timestep, wrs, inits) ==
    IF ConstructorRaises(snap)
    THEN [acc |-> acc, disk |-> disk, raised |-> "AttributeError",
          inits |-> inits + 1, writes |-> 0, data |-> None]
    ELSE ManyAppend([acc EXCEPT !.snapshots =
                         SetTracker(acc.snapshots, index,
                                    NewTracker(snap, timestep))],
                    disk, snap, index, timestep, wrs, inits + 1)

\* TimeDepMany.append
ManyAppend(acc, disk, snap, index, timestep, wrs, inits) ==
    IF ~HasTracker(acc.snapshots, index)
    THEN ManyAddInit(acc, disk, snap, index, timestep, wrs, inits)
    ELSE IF GetDataRaises(snap)
    THEN [acc |-> acc, disk |-> disk, raised |-> "AttributeError",
          inits |-> inits, writes |-> 0, data |-> None]
    ELSE LET data == Observe(acc.snapshots, index, snap, timestep)
             w == IF wrs = <<>> THEN "ok" ELSE Head(wrs)
             rest == IF wrs = <<>> THEN <<>> ELSE Tail(wrs)
             opened == [acc EXCEPT
                           !.store = "open",
                           !.snapshots =
                               SetTracker(acc.snapshots, index,
                                          AfterGetData(acc.snapshots[index],
                                                       snap, timestep))]
             written == StoreClose([opened EXCEPT !.buffer = Append(@, data)],
                                   OpenStore(disk, acc.path))
             failed == StoreClose(opened, OpenStore(disk, acc.path))
         IN IF w = "ok"
            THEN [acc |-> written.acc, disk |-> written.disk,
                  raised |-> "none", inits |-> inits, writes |-> 1,
                  data |-> data]
            ELSE IF w \in {"IndexError", "KeyError"}
            THEN LET r == ManyAddInit(failed.acc, failed.disk, snap, index,
                                      timestep, rest, inits)
                 IN [r EXCEPT !.writes = @ + 1]
            ELSE [acc |-> failed.acc, disk |-> failed.disk, raised |-> w,
                  inits |-> inits, writes |-> 1, data |-> None]

-----------------------------------------------------------------------------
(* The state machine *)

NoCall ==
    [op |-> "none", acc |-> None, index |-> None, timestep |-> None,
     snapshot |-> None, wrs |-> <<>>, raised |-> "none", inits |-> 0,
     writes |-> 0, data |-> None,
     unwrapped |-> None, rotsum |-> None]

\* interactive_config has not been imported
NoViewer ==
    [trj |-> 0, snapshot |-> -1, play |-> FALSE,
     index |-> [value |-> 0, start |-> 0, end |-> 1],
     increment_size |-> 1]

\* no SimulationParams object has been made
NoParams == [parameters |-> <<>>]

\* compute_motion has not been called
NoRun ==
    [pc |-> "none", filename |-> NoName, outdir |-> FALSE, src |-> <<>>,
     series |-> <<>>, frame |-> 0, pos |-> 0, curr_step |-> 0]

Init ==
    /\ fs = [p \in DiskPaths |-> NoFile]
    /\ accs = [a \in Instances |-> NoAcc]
    /\ dyn = NoTracker
    /\ feed = <<>>
    /\ run = NoRun
    /\ viewer = NoViewer
    /\ params = NoParams
    /\ last = NoCall

\* dynamics = TimeDepMany(outfile)
TimeDepManyInit(a, filename) ==
    /\ accs' = [accs EXCEPT ![a] = NewTimeDepMany(filename)]
    /\ fs' = CheckFiles(fs, DatasetPath(filename))
    /\ last' = [NoCall EXCEPT !.op = "init", !.acc = a]
    /\ UNCHANGED <<dyn, feed, run, viewer, params>>

\* the call append(snapshot, index, timestep) on accumulator a, the storage
\* answering wrs: what it does to the accumulator and the disk
Record(a, snap, index, timestep, wrs) ==
    \E r \in {ManyAppend(accs[a], fs, snap, index, timestep, wrs, 0)} :
       /\ accs' = [accs EXCEPT ![a] =
                     IF r.raised = "none"
                     THEN [r.acc EXCEPT !.calls = @ + 1] ELSE r.acc]
       /\ fs' = r.disk
       /\ last' = [NoCall EXCEPT !.op = "append", !.acc = a,
                      !.index = index, !.timestep = timestep,
                      !.snapshot = snap, !.wrs = wrs, !.raised = r.raised,
                      !.inits = r.inits, !.writes = r.writes,
                      !.data = r.data]

\* dynamics.append(snapshot, index, timestep), the storage answering wrs
TimeDepManyAppend(a, snap, index, timestep, wrs) ==
    /\ accs[a] # NoAcc
    /\ TotalRows(fs) < MaxRows
    /\ Record(a, snap, index, timestep, wrs)
    /\ UNCHANGED <<dyn, feed, run, viewer, params>>

\* dynamics = TimeDep.TimeDep2dRigid(system.take_snapshot(all=True), step)
TimeDep2dRigidInit ==
    /\ dyn = NoTracker
    /\ feed # <<>>
    /\ LET snap == Head(feed).snapshot
           timestep == Head(feed).timestep
       IN /\ dyn' = NewTracker(snap, timestep)
          /\ last' = [NoCall EXCEPT !.op = "capture", !.timestep = timestep,
                         !.snapshot = snap, !.data = dyn'.data[1],
                         !.unwrapped = Unwrap(dyn'.image_init, snap),
                         !.rotsum = RotationSums(dyn', snap)]
    /\ feed' = Tail(feed)
    /\ UNCHANGED <<fs, accs, run, viewer, params>>

\* dynamics.get_data(system.take_snapshot(all=True), curr_step)
TimeDep2dRigidGetData ==
    /\ dyn # NoTracker
    /\ feed # <<>>
    /\ LET snap == Head(feed).snapshot
           timestep == Head(feed).timestep
       IN last' = [NoCall EXCEPT !.op = "get_data", !.timestep = timestep,
                      !.snapshot = snap, !.data = GetData(dyn, snap, timestep),
                      !.unwrapped = Unwrap(dyn.image_init, snap),
                      !.rotsum = RotationSums(dyn, snap)]
          /\ dyn' = AfterGetData(dyn, snap, timestep)
    /\ feed' = Tail(feed)
    /\ UNCHANGED <<fs, accs, run, viewer, params>>

\* dynamics.add_init(snapshot, index, timestep), called from outside with
\* the arguments the caller has lined up in feed
TimeDepManyAddInitFed(a, wrs) ==
    /\ accs[a] # NoAcc
    /\ feed # <<>>
    /\ LET snap == Head(feed).snapshot
           index == Head(feed).index
           timestep == Head(feed).timestep
       IN \E r \in {ManyAddInit(accs[a], fs, snap, index, timestep, wrs, 0)} :
          /\ accs' = [accs EXCEPT ![a] = r.acc]
          /\ fs' = r.disk
          /\ last' = [NoCall EXCEPT !.op = "add_init", !.acc = a,
                         !.index = index, !.timestep = timestep,
                         !.snapshot = snap, !.wrs = wrs, !.raised = r.raised,
                         !.inits = r.inits, !.writes = r.writes,
                         !.data = r.data]
    /\ feed' = Tail(feed)
    /\ UNCHANGED <<dyn, run, viewer, params>>

\* dynamics.append(system.take_snapshot(all=True), curr_step)
TimeDep2dRigidAppend ==
    /\ dyn # NoTracker
    /\ feed # <<>>
    /\ LET snap == Head(feed).snapshot
           timestep == Head(feed).timestep
       IN /\ dyn' = TrackerAppend(dyn, snap, timestep)
          /\ last' = [NoCall EXCEPT !.op = "tracker_append",
                         !.timestep = timestep, !.snapshot = snap,
                         !.data = GetData(dyn, snap, timestep)]
    /\ feed' = Tail(feed)
    /\ UNCHANGED <<fs, accs, run, viewer, params>>

\* TimeDep2dRigid.get_all_data
GetAllData(tr) == tr.data

\* return dynamics.get_all_data(), once the loop over the steps is over
TimeDep2dRigidGetAllData ==
    /\ dyn # NoTracker
    /\ feed = <<>>
    /\ last.op # "get_all_data"
    /\ last' = [NoCall EXCEPT !.op = "get_all_data", !.data = GetAllData(dyn)]
    /\ UNCHANGED <<fs, accs, dyn, feed, run, viewer, params>>

\* dynamics.append(snapshot, index, timestep) with the arguments the caller
\* has lined up in feed, the storage answering wrs
TimeDepManyAppendFed(a, wrs) ==
    /\ accs[a] # NoAcc
    /\ feed # <<>>
    /\ Record(a, Head(feed).snapshot, Head(feed).index, Head(feed).timestep, wrs)
    /\ feed' = Tail(feed)
    /\ UNCHANGED <<dyn, run, viewer, params>>

\* One accumulator driven through its record call, on a working disk
Next ==
    \/ \E f \in FileNames : TimeDepManyInit("A", f)
    \/ \E snap \in Frames, i \in Indices, t \in Steps :
            TimeDepManyAppend("A", snap, i, t, <<"ok">>)

Spec == Init /\ [][Next]_vars

\* One tracker: it captures a snapshot and observes another, both drawn
\* from Snapshots with their timesteps
InitEngine ==
    /\ fs = [p \in DiskPaths |-> NoFile]
    /\ accs = [a \in Instances |-> NoAcc]
    /\ dyn = NoTracker
    /\ feed \in {<<[snapshot |-> s0, timestep |-> t0],
                   [snapshot |-> s1, timestep |-> t1]>> :
                    s0 \in Snapshots, t0 \in Steps,
                    s1 \in Snapshots, t1 \in Steps}
    /\ run = NoRun
    /\ viewer = NoViewer
    /\ params = NoParams
    /\ last = NoCall

NextEngine ==
    \/ TimeDep2dRigidInit
    \/ TimeDep2dRigidGetData

SpecEngine == InitEngine /\ [][NextEngine]_vars

\* the calls a caller lines up: a snapshot, an origin index, a timestep
MaxFeed == 2

Feeds ==
    [1..MaxFeed -> [snapshot : Frames, index : Indices, timestep : Steps]]

\* what the storage answers to the writes of one record call: every write
\* succeeds, or the first raises an exception append catches, or one it
\* does not catch
StorageAnswers == {<<>>, <<"KeyError">>, <<"OSError">>}

\* A tracker and an accumulator side by side, handed the same calls: each
\* call goes to the tracker (constructor, get_data, append) or to the
\* accumulator's record, whose write succeeds or fails
InitOrigin ==
    /\ fs = [p \in DiskPaths |-> NoFile]
    /\ accs = [a \in Instances |->
                 IF a = "A" THEN NewTimeDepMany(NoName) ELSE NoAcc]
    /\ dyn = NoTracker
    /\ feed \in Feeds
    /\ run = NoRun
    /\ viewer = NoViewer
    /\ params = NoParams
    /\ last = NoCall

NextOrigin ==
    \/ TimeDep2dRigidInit
    \/ TimeDep2dRigidGetData
    \/ TimeDep2dRigidAppend
    \/ \E wrs \in StorageAnswers : TimeDepManyAppendFed("A", wrs)

SpecOrigin == InitOrigin /\ [][NextOrigin]_vars

\* run_npt: the tracker captures the first snapshot, appends an Observation
\* of each later one and returns all of them
InitNpt ==
    /\ fs = [p \in DiskPaths |-> NoFile]
    /\ accs = [a \in Instances |-> NoAcc]
    /\ dyn = NoTracker
    /\ feed \in [1..(MaxFeed + 1) -> [snapshot : Frames, timestep : Steps]]
    /\ run = NoRun
    /\ viewer = NoViewer
    /\ params = NoParams
    /\ last = NoCall

NextNpt ==
    \/ TimeDep2dRigidInit
    \/ TimeDep2dRigidAppend
    \/ TimeDep2dRigidGetAllData

SpecNpt == InitNpt /\ [][NextNpt]_vars

\* a frame without orientations and a frame without body ids
MalformedFrames ==
    LET f == CHOOSE g \in Frames : g.step = 1
    IN {[f EXCEPT !.orientation = NoAttr], [f EXCEPT !.body = NoAttr]}

\* One accumulator handed calls whose snapshots may lack what the rotation
\* tracking reads
InitMalformed ==
    /\ fs = [p \in DiskPaths |-> NoFile]
    /\ accs = [a \in Instances |->
                 IF a = "A" THEN NewTimeDepMany(NoName) ELSE NoAcc]
    /\ dyn = NoTracker
    /\ feed \in [1..MaxFeed -> [snapshot : Frames \cup MalformedFrames,
                                 index : Indices, timestep : Steps]]
    /\ run = NoRun
    /\ viewer = NoViewer
    /\ params = NoParams
    /\ last = NoCall

NextMalformed ==
    \E wrs \in {<<>>, <<"KeyError">>} : TimeDepManyAppendFed("A", wrs)

SpecMalformed == InitMalformed /\ [][NextMalformed]_vars

\* Two accumulators alive at the same time: their constructions and their
\* record calls in every order
InitTwo ==
    /\ fs = [p \in DiskPaths |-> NoFile]
    /\ accs = [a \in Instances |-> NoAcc]
    /\ dyn = NoTracker
    /\ feed \in Feeds
    /\ run = NoRun
    /\ viewer = NoViewer
    /\ params = NoParams
    /\ last = NoCall

NextTwo ==
    \/ \E a \in Instances, f \in FileNames : TimeDepManyInit(a, f)
    \/ \E a \in Instances : TimeDepManyAppendFed(a, <<>>)

SpecTwo == InitTwo /\ [][NextTwo]_vars

\* what the storage may answer to the successive writes of one call
Writes ==
    {<<>>, <<"KeyError">>, <<"IndexError">>, <<"OSError">>,
     <<"KeyError", "OSError">>, <<"KeyError", "KeyError">>}

\* One accumulator driven through both its public methods, on a disk whose
\* writes may fail
NextApi ==
    \/ \E wrs \in Writes : TimeDepManyAppendFed("A", wrs)
    \/ \E wrs \in Writes : TimeDepManyAddInitFed("A", wrs)

SpecApi == InitOrigin /\ [][NextApi]_vars

-----------------------------------------------------------------------------
(* compute_motion, the driver loop.  The step schedule GenerateStepSeries   *)
(* yields is held as the sequence of its (origin index, timestep) pairs,    *)
(* in non-decreasing timestep order, with the place the iterator has        *)
(* reached.                                                                 *)

\* the number of pairs a schedule yields before it is exhausted
MaxSeries == 3
\* the number of frames of a trajectory file
MaxFrames == 2


NonDecreasing(s) == \A i \in 1..(Len(s) - 1) : s[i].step <= s[i + 1].step

\* the trajectory files: their frames are in non-decreasing step order
Trajectories ==
    UNION {{src \in [1..n -> Frames] : NonDecreasing(src)} : n \in 1..MaxFrames}

\* GenerateStepSeries(num_steps, ...): the schedules of steps up to num_steps
StepSeries(num_steps) ==
    {ser \in [1..MaxSeries -> [index : Indices, step : 0..num_steps]] :
        NonDecreasing(ser)}

\* step_iter.get_index(): the origin index of the step last yielded, the
\* first origin before any step was
GetIndex(r) == IF r.pos = 0 THEN 0 ELSE r.series[r.pos].index

\* the schedule can yield a further step
HasNext(r) == r.pos < Len(r.series)

\* step_iter.next()
SeriesNext(r) ==
    IF HasNext(r)
    THEN [r EXCEPT !.pos = @ + 1, !.curr_step = r.series[r.pos + 1].step]
    ELSE [r EXCEPT !.pc = "StopIteration"]

\* lines 21-33: the schedule, the output file, the accumulator, curr_step
ComputeMotionOpen ==
    /\ run.pc = "open"
    /\ LET outfile == OutFile(run.filename, run.outdir)
       IN /\ accs' = [accs EXCEPT !["A"] = NewTimeDepMany(outfile)]
          /\ fs' = CheckFiles(fs, DatasetPath(outfile))
    /\ run' = [run EXCEPT !.pc = "for", !.frame = 0, !.pos = 0, !.curr_step = 0]
    /\ last' = [NoCall EXCEPT !.op = "init", !.acc = "A"]
    /\ UNCHANGED <<dyn, feed, viewer, params>>

\* lines 34-37: the next frame of the file, its first record
ComputeMotionFrame ==
    /\ run.pc = "for"
    /\ run.frame < Len(run.src)
    /\ LET r == [run EXCEPT !.frame = @ + 1]
       IN /\ Record("A", r.src[r.frame], GetIndex(r), r.curr_step, <<>>)
          /\ run' = LET n == SeriesNext(r)
                    IN IF n.pc = "StopIteration" THEN n
                       ELSE [n EXCEPT !.pc = "while"]
    /\ UNCHANGED <<dyn, feed, viewer, params>>

\* lines 38-41: one turn of the while loop
ComputeMotionWhile ==
    /\ run.pc = "while"
    /\ run.curr_step = run.src[run.frame].step
    /\ Record("A", run.src[run.frame], GetIndex(run), run.curr_step, <<>>)
    /\ run' = SeriesNext(run)
    /\ UNCHANGED <<dyn, feed, viewer, params>>

\* line 38: the while condition is false, the for loop goes on
ComputeMotionWhileEnd ==
    /\ run.pc = "while"
    /\ run.curr_step # run.src[run.frame].step
    /\ run' = [run EXCEPT !.pc = "for"]
    /\ UNCHANGED <<fs, accs, dyn, feed, last, viewer, params>>

\* line 42: the file has no further frame
ComputeMotionReturn ==
    /\ run.pc = "for"
    /\ run.frame = Len(run.src)
    /\ run' = [run EXCEPT !.pc = "returned"]
    /\ UNCHANGED <<fs, accs, dyn, feed, last, viewer, params>>

\* compute_motion(filename, outdir) on a trajectory file and a schedule
InitMotion ==
    /\ fs = [p \in DiskPaths |-> NoFile]
    /\ accs = [a \in Instances |-> NoAcc]
    /\ dyn = NoTracker
    /\ feed = <<>>
    /\ \E f \in TrajectoryNames, d \in BOOLEAN, src \in Trajectories :
          \E ser \in StepSeries(src[Len(src)].step) :
             run = [NoRun EXCEPT !.pc = "open", !.filename = f, !.outdir = d,
                                 !.src = src, !.series = ser]
    /\ viewer = NoViewer
    /\ params = NoParams
    /\ last = NoCall

NextMotion ==
    \/ ComputeMotionOpen
    \/ ComputeMotionFrame
    \/ ComputeMotionWhile
    \/ ComputeMotionWhileEnd
    \/ ComputeMotionReturn

SpecMotion == InitMotion /\ [][NextMotion]_vars

-----------------------------------------------------------------------------
(* Properties of the accumulator, checked under Spec *)

\* the dataset an accumulator writes to
Dataset(a) == Rows(fs, accs[a].path)

Constructed == {a \in Instances : accs[a] # NoAcc}

AllZero(s) == \A i \in DOMAIN s : s[i] = 0

ZeroRecord(d) == AllZero(d.displacement) /\ AllZero(d.rotation) /\ d.time = 0

C2_OneRowPerRecord ==
    \A a \in Constructed : Len(Dataset(a)) = accs[a].calls

\* index 0 at step 0, index 0 at a later step, index 1 at that step: 3 rows
C2_Witness ==
    /\ accs["A"] # NoAcc
    /\ accs["A"].calls = 3
    /\ Len(Dataset("A")) = 3
    /\ Dataset("A")[1].start_index = 0 /\ Dataset("A")[1].time = 0
    /\ Dataset("A")[2].start_index = 0 /\ Dataset("A")[2].time = 1
    /\ Dataset("A")[3].start_index = 1 /\ Dataset("A")[3].time = 0

\* C3 (zero-origin invariant): the Observation every tracker computed at its
\* construction, from its capture snapshot at its capture timestep, has
\* displacement 0 and rotation 0 for each of its bodies and elapsed time 0;
\* and the first Observation of each origin index in a dataset is such a
\* zero record.
C3_ZeroOrigin ==
    \A a \in Constructed :
        /\ \A i \in DOMAIN accs[a].snapshots :
              LET tr == accs[a].snapshots[i]
              IN /\ ZeroRecord(tr.data[1])
                 /\ Len(tr.data[1].displacement) = tr.bodies
                 /\ Len(tr.data[1].rotation) = tr.bodies
        /\ \A n \in 1..Len(Dataset(a)) :
              (\A m \in 1..(n - 1) :
                    Dataset(a)[m].start_index # Dataset(a)[n].start_index)
                => ZeroRecord(Dataset(a)[n])

\* an origin captured with a non-zero image and a turned orientation wrote
\* its zero record, and a later Observation of that index is not zero
C3_Witness ==
    /\ accs["A"] # NoAcc
    /\ Len(Dataset("A")) >= 2
    /\ 0 \in DOMAIN accs["A"].snapshots
    /\ accs["A"].snapshots[0].image_init[1] # Zero3
    /\ accs["A"].snapshots[0].orient_init[1] # 0
    /\ Dataset("A")[1].start_index = 0
    /\ ZeroRecord(Dataset("A")[1])
    /\ Dataset("A")[2].start_index = 0
    /\ ~AllZero(Dataset("A")[2].displacement)
    /\ ~AllZero(Dataset("A")[2].rotation)

\* C4 (InvalidTimestepError), as claimed: a record call on an index whose
\* origin was captured at a later timestep fails with InvalidTimestepError,
\* and no Observation on disk has a negative elapsed time.
C4_InvalidTimestep ==
    /\ \A p \in DiskPaths : \A n \in 1..Len(Rows(fs, p)) : Rows(fs, p)[n].time >= 0
    /\ (last.op = "append"
            /\ last.timestep < accs[last.acc].snapshots[last.index].timestep)
          => last.raised = "InvalidTimestepError"

C6_FreshDataset ==
    [][/\ last'.op = "init" =>
            LET p == accs'[last'.acc].path
                bak == p \o <<"bak">>
            IN /\ p[Len(p)] = "hdf5"
               /\ ~Exists(fs', p)
               /\ IF Exists(fs, p)
                  THEN /\ fs'[bak] = fs[p]
                       /\ \A q \in DiskPaths \ {p, bak} : fs'[q] = fs[q]
                  ELSE fs' = fs
       /\ (last.op = "init" /\ last'.op = "append") =>
            LET p == accs[last.acc].path
                bak == p \o <<"bak">>
            IN /\ Len(Rows(fs', p)) = 1
               /\ fs'[bak] = fs[bak]]_vars

\* an accumulator was constructed over an existing dataset of two
\* Observations, which is now the backup
C6_Witness ==
    /\ last.op = "init"
    /\ ~Exists(fs, accs[last.acc].path)
    /\ Exists(fs, accs[last.acc].path \o <<"bak">>)
    /\ Len(Rows(fs, accs[last.acc].path \o <<"bak">>)) = 2

-----------------------------------------------------------------------------
(* Properties of the tracker's engines, checked under SpecEngine *)

\* the tracker has just captured its origin or observed a snapshot
Observed == last.op \in {"capture", "get_data"}

\* the box lengths of a snapshot, in either representation
Lengths(snap) == IF snap.box # NoAttr THEN snap.box ELSE SubSeq(snap.cbox, 1, 3)

\* the snapshot holding particle i alone, as a rigid body of its own
Restrict(snap, i) ==
    [snap EXCEPT !.position = <<snap.position[i]>>,
                 !.image = <<snap.image[i]>>,
                 !.orientation = <<snap.orientation[i]>>,
                 !.body = <<0>>]

SumSq(v, w) ==
    (v[1] - w[1]) * (v[1] - w[1]) + (v[2] - w[2]) * (v[2] - w[2])
        + (v[3] - w[3]) * (v[3] - w[3])

C8_UnwrapIdempotent ==
    Observed =>
        \A i \in 1..Len(last.snapshot.position) :
            last.snapshot.image[i] = dyn.t_init.image[i]
                => last.unwrapped[i] = last.snapshot.position[i]

\* a particle observed on the non-zero image it was captured on, in a box
\* of unequal lengths, while the other particle changed image
C8_Witness ==
    /\ last.op = "get_data"
    /\ Lengths(last.snapshot) = <<4, 6, 8>>
    /\ last.snapshot.image[1] = dyn.t_init.image[1]
    /\ last.snapshot.image[1] # Zero3
    /\ last.snapshot.image[2] # dyn.t_init.image[2]
    /\ last.unwrapped[2] # last.snapshot.position[2]

\* C9 (rigid-body mode): with B = max(body id) + 1 of the capture snapshot,
\* displacement and rotation hold exactly B elements, and element i is what
\* a tracker of particle i alone computes from particle i of the capture
\* snapshot and particle i of the observed one: order is kept and no other
\* particle contributes.
C9_RigidSubset ==
    Observed =>
        LET origin == dyn.t_init
            B == Max(Range(origin.body)) + 1
        IN /\ Len(last.data.displacement) = B
           /\ Len(last.data.rotation) = B
           /\ \A i \in 1..B :
                 LET one == GetData(NewTracker(Restrict(origin, i), dyn.timestep),
                                    Restrict(last.snapshot, i), last.timestep)
                 IN /\ last.data.displacement[i] = one.displacement[1]
                    /\ last.data.rotation[i] = one.rotation[1]

\* one rigid body of two particles: the result has one element although
\* the second particle moved
C9_Witness ==
    /\ last.op = "get_data"
    /\ dyn.t_init.body = <<0, 0>>
    /\ Len(last.snapshot.position) = 2
    /\ Len(last.data.displacement) = 1
    /\ last.data.displacement[1] > 0
    /\ last.unwrapped[2] # dyn.t_init.position[2]

-----------------------------------------------------------------------------
(* Properties of the driver loop, of Origins, of storage faults, of         *)
(* malformed input and of accumulators side by side.  Each names the        *)
(* specification it is stated for.                                          *)

C12_OriginImmutable ==
    [][/\ (dyn # NoTracker /\ dyn' # NoTracker) => Origin(dyn') = Origin(dyn)
       /\ \A a \in Constructed :
            \A i \in DOMAIN accs[a].snapshots \cap DOMAIN accs'[a].snapshots :
                ~(last'.op = "append" /\ last'.acc = a /\ last'.index = i
                     /\ last'.inits > 0)
                  => Origin(accs'[a].snapshots[i]) = Origin(accs[a].snapshots[i])
      ]_vars

\* the tracker appended an Observation of a snapshot that differs from the
\* one it captured, and holds what it captured
C12_Witness ==
    /\ last.op = "tracker_append"
    /\ Len(dyn.data) = 2
    /\ ~AllZero(dyn.data[2].displacement)
    /\ ~AllZero(dyn.data[2].rotation)
    /\ dyn.data[2].time # 0
    /\ dyn.pos_init = dyn.t_init.position
    /\ dyn.pos_init # last.snapshot.position

\* C13 (an Origin is created once per index), as claimed: no append and no
\* add_init call removes an index from the tracker map of its accumulator
\* or binds an index that had a tracker to a different tracker.
\* Specification: SpecApi.
C13_OriginCreatedOnce ==
    [][last'.op \in {"append", "add_init"} =>
        \A i \in DOMAIN accs[last'.acc].snapshots :
            /\ i \in DOMAIN accs'[last'.acc].snapshots
            /\ accs'[last'.acc].snapshots[i] = accs[last'.acc].snapshots[i]]_vars

\* C14 (append-only dataset): a record call that returns leaves the dataset
\* as it was with the call's Observation added after the last one; a record
\* call that raises leaves the dataset as it was; no record call changes
\* another file.
\* Specification: SpecOrigin.
C14_AppendOnly ==
    [][last'.op = "append" =>
        LET p == accs[last'.acc].path
        IN /\ Rows(fs', p) = IF last'.raised = "none"
                             THEN Append(Rows(fs, p), last'.data)
                             ELSE Rows(fs, p)
           /\ \A q \in DiskPaths \ {p} : fs'[q] = fs[q]]_vars

\* a second Observation was added after the first, by a record call whose
\* first write raised KeyError
C14_Witness ==
    /\ last.op = "append"
    /\ last.wrs = <<"KeyError">>
    /\ last.raised = "none"
    /\ Len(Dataset("A")) = 2
    /\ Dataset("A")[2] = last.data
    /\ Dataset("A")[1].start_index # Dataset("A")[2].start_index

\* C15 (what a record writes): the Observation a record call adds to the
\* dataset has the call's index as start_index and, as elapsed time, the
\* call's timestep minus the capture timestep of the tracker bound to that
\* index; when the index had no tracker the elapsed time is 0, and when it
\* had one and the call constructed none, the capture timestep is that of
\* the tracker the index had before the call.
\* Specification: SpecOrigin.
C15_RecordContents ==
    [][(last'.op = "append" /\ last'.raised = "none") =>
        LET a == last'.acc
            i == last'.index
            rows == Rows(fs', accs'[a].path)
            row == rows[Len(rows)]
        IN /\ Len(rows) = Len(Rows(fs, accs[a].path)) + 1
           /\ row.start_index = i
           /\ row.time = last'.timestep - accs'[a].snapshots[i].timestep
           /\ ~HasTracker(accs[a].snapshots, i) => row.time = 0
           /\ (HasTracker(accs[a].snapshots, i) /\ last'.inits = 0) =>
                 row.time = last'.timestep - accs[a].snapshots[i].timestep
      ]_vars

\* index 1 was captured at timestep 0 and recorded again at timestep 1
C15_Witness ==
    /\ last.op = "append"
    /\ last.raised = "none"
    /\ last.inits = 0
    /\ last.index = 1
    /\ last.timestep = 1
    /\ Len(Dataset("A")) = 2
    /\ Dataset("A")[1].start_index = 1 /\ Dataset("A")[1].time = 0
    /\ Dataset("A")[2].start_index = 1 /\ Dataset("A")[2].time = 1

\* C16 (storage failures propagate), as claimed: when the first write of a
\* record call raises, the call raises that exception, has attempted one
\* write, and leaves every tracker the accumulator had as it was.
\* Specification: SpecApi.
C16_WriteFailurePropagates ==
    [][(last'.op = "append" /\ last'.wrs # <<>>) =>
        /\ last'.raised = Head(last'.wrs)
        /\ last'.writes = 1
        /\ \A i \in DOMAIN accs[last'.acc].snapshots :
              accs'[last'.acc].snapshots[i] = accs[last'.acc].snapshots[i]]_vars

\* C17 (malformed input fails at construction): a record call for an index
\* that has no tracker, with a snapshot that lacks orientations or body
\* ids, raises; it has attempted no write, the disk is as it was, and the
\* index, like the rest of the tracker map, is as it was: it has no tracker.
\* Specification: SpecMalformed.
C17_FailsAtConstruction ==
    [][(/\ last'.op = "append"
        /\ ~HasTracker(accs[last'.acc].snapshots, last'.index)
        /\ ConstructorRaises(last'.snapshot)) =>
            /\ last'.raised # "none"
            /\ last'.inits = 1
            /\ last'.writes = 0
            /\ ~HasTracker(accs'[last'.acc].snapshots, last'.index)
            /\ accs'[last'.acc].snapshots = accs[last'.acc].snapshots
            /\ fs' = fs]_vars

\* the first record for index 1, with a snapshot that has orientations and
\* no body ids, failed; index 0 has its tracker and its zero record
C17_Witness ==
    /\ last.op = "append"
    /\ last.index = 1
    /\ last.snapshot.body = NoAttr
    /\ last.snapshot.orientation # NoAttr
    /\ last.raised = "AttributeError"
    /\ DOMAIN accs["A"].snapshots = {0}
    /\ Len(Dataset("A")) = 1
    /\ Dataset("A")[1].start_index = 0

\* C18 (bounded memory): a record call adds at most one tracker to the
\* accumulator, for its own index and only when the index had none or the
\* call constructed one; every tracker holds one frame, the zero record of
\* its construction; and a record call that constructs no tracker leaves
\* the tracker map, the whole of what the accumulator holds besides its
\* path, exactly as it was while the dataset grows.
\* Specification: SpecOrigin.
C18_BoundedMemory ==
    [][last'.op = "append" =>
        LET a == last'.acc
            before == accs[a].snapshots
            after == accs'[a].snapshots
        IN /\ DOMAIN after \subseteq DOMAIN before \cup {last'.index}
           /\ \A i \in DOMAIN after :
                 Len(after[i].data) = 1 /\ ZeroRecord(after[i].data[1])
           /\ last'.inits = 0 => after = before
           /\ accs'[a].path = accs[a].path]_vars

\* two Observations of index 0 are in the dataset and the accumulator holds
\* one tracker with one frame
C18_Witness ==
    /\ last.op = "append"
    /\ last.inits = 0
    /\ last.raised = "none"
    /\ Len(Dataset("A")) = 2
    /\ ~ZeroRecord(Dataset("A")[2])
    /\ DOMAIN accs["A"].snapshots = {0}
    /\ Len(accs["A"].snapshots[0].data) = 1

\* C19 (no shared mutable state), as claimed: a record call on one
\* accumulator leaves the tracker map of every other accumulator and the
\* dataset file of every other accumulator as they were.
\* Specification: SpecTwo.
C19_NoSharedState ==
    [][last'.op = "append" =>
        \A b \in Constructed \ {last'.acc} :
            /\ accs'[b].snapshots = accs[b].snapshots
            /\ fs'[accs[b].path] = fs[accs[b].path]]_vars

\* C20 (synchronous write): after every call the store of every accumulator
\* is closed (or was never opened) and holds no frame that is not in the
\* file; and when a record call returns, its Observation is the last one of
\* the dataset file and the store is closed.
\* Specification: SpecOrigin.
C20_SynchronousWrite ==
    [][/\ \A a \in Instances :
            accs'[a] # NoAcc =>
                accs'[a].buffer = <<>> /\ accs'[a].store \in {"unopened", "closed"}
       /\ (last'.op = "append" /\ last'.raised = "none") =>
            LET rows == Rows(fs', accs'[last'.acc].path)
            IN /\ accs'[last'.acc].store = "closed"
               /\ Exists(fs', accs'[last'.acc].path)
               /\ rows # <<>>
               /\ rows[Len(rows)] = last'.data
               /\ Len(rows) = Len(Rows(fs, accs[last'.acc].path)) + 1]_vars

\* a record call on a closed store returned: the store was opened, the
\* Observation written, the store closed again
C20_Witness ==
    /\ last.op = "append"
    /\ last.raised = "none"
    /\ last.wrs = <<>>
    /\ last.writes = 1
    /\ accs["A"].store = "closed"
    /\ accs["A"].buffer = <<>>
    /\ accs["A"].calls = 2
    /\ Len(Dataset("A")) = 2
    /\ Dataset("A")[2] = last.data

\* C21 (independent Origins): a record call for an index leaves the tracker
\* of every other index as it was, and the Observation it writes is the one
\* computed from the call's snapshot, the call's timestep and the Origin of
\* the call's own index, whatever the other trackers hold.
\* Specification: Spec.
C21_IndependentOrigins ==
    [][last'.op = "append" =>
        LET a == last'.acc
            i == last'.index
            before == accs[a].snapshots
            after == accs'[a].snapshots
        IN /\ \A j \in DOMAIN before \ {i} :
                 j \in DOMAIN after /\ after[j] = before[j]
           /\ last'.raised = "none" =>
                 last'.data = [GetData(Origin(after[i]), last'.snapshot,
                                       last'.timestep)
                                  EXCEPT !.start_index = i]]_vars

\* origins 0 and 1 were captured from different snapshots, and a later
\* record for index 0 wrote an Observation that the Origin of index 1
\* would not have given
C21_Witness ==
    /\ last.op = "append"
    /\ last.index = 0
    /\ last.inits = 0
    /\ DOMAIN accs["A"].snapshots = {0, 1}
    /\ Origin(accs["A"].snapshots[0]) # Origin(accs["A"].snapshots[1])
    /\ Len(Dataset("A")) = 3
    /\ Dataset("A")[3] = last.data
    /\ last.data.displacement #
          GetData(accs["A"].snapshots[1], last.snapshot, last.timestep).displacement

\* C22 (the standalone tracker keeps every Observation in order): the
\* constructor leaves the zero record alone in the tracker's data; each
\* append leaves the frames held before it, in their order, followed by the
\* frame of the appended snapshot; and get_all_data, after the k appends of
\* the loop, returns those 1 + k frames.
\* Specification: SpecNpt.
C22_AppendKeepsOrder ==
    [][/\ last'.op = "capture" =>
            Len(dyn'.data) = 1 /\ ZeroRecord(dyn'.data[1])
       /\ last'.op = "tracker_append" =>
            dyn'.data = Append(dyn.data,
                               GetData(dyn, last'.snapshot, last'.timestep))
       /\ last'.op = "get_all_data" =>
            /\ last'.data = dyn.data
            /\ Len(last'.data) = 1 + MaxFeed
            /\ ZeroRecord(last'.data[1])]_vars

\* get_all_data returned the zero record, then an Observation that is not
\* zero, then one that differs from it
C22_Witness ==
    /\ last.op = "get_all_data"
    /\ Len(last.data) >= 3
    /\ ZeroRecord(last.data[1])
    /\ ~AllZero(last.data[2].displacement)
    /\ last.data[2].time = 1
    /\ last.data[3] # last.data[2]

\* C23 (timestep of the frame), as claimed: every record call compute_motion
\* makes passes, as timestep, the step of the frame it passes.
\* Specification: SpecMotion.
C23_TimestepIsFrameStep ==
    last.op = "append" => last.timestep = last.snapshot.step

\* C24 (bounded recursion), as claimed: a call of append makes at most one
\* nested call of add_init before it returns or raises.
\* Specification: SpecApi.
C24_RecursionDepth ==
    last.op = "append" => last.inits <= 1

\* C25 (backups keep data), as claimed: constructing an accumulator destroys
\* no Dataset: the rows of every file on disk before the construction are
\* the rows of some file on disk after it.
\* Specification: Spec.
C25_BackupKeepsData ==
    [][last'.op = "init" =>
        \A p \in DiskPaths :
            Exists(fs, p) =>
                \E q \in DiskPaths : Exists(fs', q) /\ Rows(fs', q) = Rows(fs, p)]_vars

\* C26 (distinct Datasets), as claimed: the Dataset of a compute_motion run
\* is the Dataset of no other trajectory file name processed with the same
\* outdir setting.
\* Specification: SpecMotion.
C26_DistinctDatasets ==
    run.pc \notin {"none", "open"} =>
        \A g \in TrajectoryNames \ {run.filename} :
            accs["A"].path # DatasetPath(OutFile(g, run.outdir))

(***************************************************************************)
(* figures/interactive_config.py: the viewer of a trajectory.  trj is the  *)
(* number of frames of the open trajectory, snapshot the number of the     *)
(* frame on display (-1: none), index and increment_size the two sliders.  *)
(***************************************************************************)
MaxTrj == 3
MaxIncrement == 2

\* trj[new]: a frame of the open trajectory, counted from the end for a
\* negative number, or IndexError
TrjGetItem(len, new) ==
    LET k == IF new < 0 THEN new + len ELSE new
    IN IF k < 0 \/ k >= len THEN [raised |-> "IndexError", frame |-> -1]
       ELSE [raised |-> "none", frame |-> k]

\* update_snapshot(attr, old, new), reached through update_index: old is
\* -1 for None
UpdateSnapshot(v, old, new) ==
    IF old = new THEN [viewer |-> v, raised |-> "none"]
    ELSE LET r == TrjGetItem(v.trj, new)
         IN IF r.raised = "none"
            THEN [viewer |-> [v EXCEPT !.snapshot = r.frame], raised |-> "none"]
            ELSE [viewer |-> v, raised |-> r.raised]

\* an assignment to index.value: the slider takes the value as it is and
\* calls update_index(attr, old, new) when the value changed
SetIndexValue(v, new) ==
    IF new = v.index.value THEN [viewer |-> v, raised |-> "none"]
    ELSE UpdateSnapshot([v EXCEPT !.index.value = new], v.index.value, new)

\* incr_index()
IncrIndex(v) ==
    IF v.index.value < v.index.end
    THEN SetIndexValue(v, v.index.value + v.increment_size)
    ELSE [viewer |-> v, raised |-> "none"]

\* decr_index()
DecrIndex(v) ==
    IF v.index.value > v.index.start
    THEN SetIndexValue(v, v.index.value - v.increment_size)
    ELSE [viewer |-> v, raised |-> "none"]

\* update_trajectory(attr, old, new) for a file of len frames
UpdateTrajectory(v, len) ==
    LET w == [v EXCEPT !.trj = len, !.index.end = len - 1]
    IN IF w.index.value > len - 1
       THEN UpdateSnapshot(w, -1, len - 1)
       ELSE UpdateSnapshot(w, -1, w.index.value)

\* the record of a handler's run
Called(op, r) == [NoCall EXCEPT !.op = op, !.raised = r.raised]

\* another file is chosen in the File box
FnameOnChange ==
    \E len \in 1..MaxTrj :
        \E r \in {UpdateTrajectory(viewer, len)} :
            /\ viewer' = r.viewer
            /\ last' = Called("update_trajectory", r)
            /\ UNCHANGED <<fs, accs, dyn, feed, run, params>>

\* a click on Next
NextFrameOnClick ==
    /\ viewer' = IncrIndex(viewer).viewer
    /\ last' = Called("incr_index", IncrIndex(viewer))
    /\ UNCHANGED <<fs, accs, dyn, feed, run, params>>

\* a click on Previous
PrevFrameOnClick ==
    /\ viewer' = DecrIndex(viewer).viewer
    /\ last' = Called("decr_index", DecrIndex(viewer))
    /\ UNCHANGED <<fs, accs, dyn, feed, run, params>>

\* the periodic callback, every 100 ms while it is registered
PeriodicCallback ==
    /\ viewer.play
    /\ viewer' = IncrIndex(viewer).viewer
    /\ last' = Called("play_tick", IncrIndex(viewer))
    /\ UNCHANGED <<fs, accs, dyn, feed, run, params>>

\* play_pause_toggle(arg): the toggle flips between its two states
PlayPauseToggle ==
    /\ viewer' = [viewer EXCEPT !.play = ~viewer.play]
    /\ last' = [NoCall EXCEPT !.op = "play_pause_toggle"]
    /\ UNCHANGED <<fs, accs, dyn, feed, run, params>>

\* the Increment Size slider is moved
IncrementSizeChange ==
    \E k \in 1..MaxIncrement :
        /\ k # viewer.increment_size
        /\ viewer' = [viewer EXCEPT !.increment_size = k]
        /\ last' = [NoCall EXCEPT !.op = "increment_size"]
        /\ UNCHANGED <<fs, accs, dyn, feed, run, params>>

\* the Index slider is moved, within its range
IndexOnChange ==
    \E new \in viewer.index.start..viewer.index.end :
        /\ new # viewer.index.value
        /\ viewer' = SetIndexValue(viewer, new).viewer
        /\ last' = Called("update_index", SetIndexValue(viewer, new))
        /\ UNCHANGED <<fs, accs, dyn, feed, run, params>>

\* the module is imported: update_directory opens the first file found
InitViewer ==
    /\ fs = [p \in DiskPaths |-> NoFile]
    /\ accs = [a \in Instances |-> NoAcc]
    /\ dyn = NoTracker
    /\ feed = <<>>
    /\ run = NoRun
    /\ \E len \in 1..MaxTrj : viewer = UpdateTrajectory(NoViewer, len).viewer
    /\ params = NoParams
    /\ last = NoCall

NextViewer ==
    \/ FnameOnChange
    \/ NextFrameOnClick
    \/ PrevFrameOnClick
    \/ PeriodicCallback
    \/ PlayPauseToggle
    \/ IncrementSizeChange
    \/ IndexOnChange

SpecViewer == InitViewer /\ [][NextViewer]_vars

\* C27 (frame index in range), as claimed: the frame index is always the
\* number of a frame of the open trajectory.
\* Specification: SpecViewer.
C27_IndexInRange ==
    viewer.trj > 0 => viewer.index.value \in 0..(viewer.trj - 1)

(***************************************************************************)
(* simulation/params.py: SimulationParams.  The parameters dictionary is a *)
(* function from the names present to their values; every value is a       *)
(* tuple, NoAttr standing for None.                                        *)
(***************************************************************************)
ParamKeys == {"crystal", "cell_dimensions", "max_gen"}

\* the entries of SimulationParams.defaults among ParamKeys
Defaults == [cell_dimensions |-> <<30, 42>>, max_gen |-> <<500>>]

ParamValues(key) ==
    IF key = "crystal" THEN {<<"p2">>, <<"pg">>}
    ELSE IF key = "cell_dimensions" THEN {<<30, 42>>, <<10, 10>>}
    ELSE {<<500>>, <<1000>>}

\* keyword arguments of the constructor
Kwargs ==
    {[k \in D |-> [crystal |-> c, cell_dimensions |-> d, max_gen |-> m][k]] :
        c \in ParamValues("crystal"), d \in ParamValues("cell_dimensions"),
        m \in ParamValues("max_gen"), D \in SUBSET ParamKeys}

\* dict.update
DictUpdate(d, kw) ==
    [k \in DOMAIN d \cup DOMAIN kw |-> IF k \in DOMAIN kw THEN kw[k] ELSE d[k]]

\* dict.get(key): None for a name that is absent
DictGet(d, key) == IF key \in DOMAIN d THEN d[key] ELSE NoAttr

\* SimulationParams.__init__
SimulationParams(kwargs) == [parameters |-> DictUpdate(Defaults, kwargs)]

\* SimulationParams.__getattr__
GetAttr(p, key) ==
    IF key \in DOMAIN p.parameters
    THEN [raised |-> "none", value |-> p.parameters[key]]
    ELSE [raised |-> "AttributeError", value |-> NoAttr]

\* SimulationParams.__setattr__
SetAttr(p, key, value) == [p EXCEPT !.parameters = DictUpdate(@, [k \in {key} |-> value])]

\* SimulationParams.__delattr__
DelAttr(p, key) ==
    IF key \in DOMAIN p.parameters
    THEN [raised |-> "none",
          params |-> [p EXCEPT !.parameters = [k \in DOMAIN @ \ {key} |-> @[k]]]]
    ELSE [raised |-> "KeyError", params |-> p]

\* the expression params.cell_dimensions: the property of the class runs
\* first; when it raises AttributeError the lookup falls back on
\* __getattr__, as for every attribute the class does not provide
CellDimensions(p) ==
    IF GetAttr(p, "crystal").raised = "AttributeError"
    THEN LET r == GetAttr(p, "cell_dimensions")
         IN [raised |-> r.raised, value |-> r.value, fallback |-> TRUE]
    ELSE [raised |-> "none", value |-> DictGet(p.parameters, "cell_dimensions"),
          fallback |-> FALSE]

\* params = SimulationParams(**kwargs)
SimulationParamsInit ==
    \E kw \in Kwargs :
        /\ params' = SimulationParams(kw)
        /\ last' = [NoCall EXCEPT !.op = "params"]
        /\ UNCHANGED <<fs, accs, dyn, feed, run, viewer>>

\* params.key = value
SimulationParamsSetAttr ==
    \E key \in ParamKeys :
        \E value \in ParamValues(key) :
            /\ params' = SetAttr(params, key, value)
            /\ last' = [NoCall EXCEPT !.op = "setattr"]
            /\ UNCHANGED <<fs, accs, dyn, feed, run, viewer>>

\* del params.key
SimulationParamsDelAttr ==
    \E key \in ParamKeys :
        /\ params' = DelAttr(params, key).params
        /\ last' = [NoCall EXCEPT !.op = "delattr", !.raised = DelAttr(params, key).raised]
        /\ UNCHANGED <<fs, accs, dyn, feed, run, viewer>>

\* params.max_gen is read: the class has no attribute of the name
SimulationParamsGetAttr ==
    /\ last' = [NoCall EXCEPT !.op = "max_gen",
                   !.raised = GetAttr(params, "max_gen").raised,
                   !.data = GetAttr(params, "max_gen").value]
    /\ UNCHANGED <<fs, accs, dyn, feed, run, viewer, params>>

\* params.cell_dimensions is read
SimulationParamsCellDimensions ==
    /\ last' = [NoCall EXCEPT !.op = "cell_dimensions",
                   !.raised = CellDimensions(params).raised,
                   !.data = CellDimensions(params).value]
    /\ UNCHANGED <<fs, accs, dyn, feed, run, viewer, params>>

InitParams ==
    /\ fs = [p \in DiskPaths |-> NoFile]
    /\ accs = [a \in Instances |-> NoAcc]
    /\ dyn = NoTracker
    /\ feed = <<>>
    /\ run = NoRun
    /\ viewer = NoViewer
    /\ params \in {SimulationParams(kw) : kw \in Kwargs}
    /\ last = NoCall

NextParams ==
    \/ SimulationParamsInit
    \/ SimulationParamsSetAttr
    \/ SimulationParamsDelAttr
    \/ SimulationParamsGetAttr
    \/ SimulationParamsCellDimensions

SpecParams == InitParams /\ [][NextParams]_vars

\* C28 (cell_dimensions needs a crystal), as claimed: reading
\* cell_dimensions of a parameter set without a crystal raises
\* AttributeError, and with a crystal it returns the stored value.
\* Specification: SpecParams.
C28_NeedsCrystal ==
    last.op = "cell_dimensions" =>
        IF "crystal" \in DOMAIN params.parameters
        THEN last.raised = "none" /\ last.data = DictGet(params.parameters, "cell_dimensions")
        ELSE last.raised = "AttributeError"

(***************************************************************************)
(* The snapshot a tracker was captured from stays with its caller.         *)
(* _init_snapshot binds pos_init and image_init to the position and image  *)
(* arrays of that snapshot, the same objects; orient_init is made by       *)
(* astype, a new array.  A write into an array of the snapshot is a write  *)
(* into every name bound to it.                                            *)
(***************************************************************************)
\* the caller writes the values of array into snapshot.particles.position
WritePosition(tr, array) ==
    [tr EXCEPT !.t_init.position = array, !.pos_init = array]

\* the caller writes the values of array into snapshot.particles.image
WriteImage(tr, array) ==
    [tr EXCEPT !.t_init.image = array, !.image_init = array]

\* the caller of the constructor modifies an array of its snapshot in place
SnapshotModify ==
    /\ dyn # NoTracker
    /\ \E s \in Frames :
          \/ /\ s.position # dyn.t_init.position
             /\ dyn' = WritePosition(dyn, s.position)
          \/ /\ s.image # dyn.t_init.image
             /\ dyn' = WriteImage(dyn, s.image)
    /\ last' = [NoCall EXCEPT !.op = "modify"]
    /\ UNCHANGED <<fs, accs, feed, run, viewer, params>>

NextAlias ==
    \/ TimeDep2dRigidInit
    \/ TimeDep2dRigidGetData
    \/ SnapshotModify

SpecAlias == InitOrigin /\ [][NextAlias]_vars

\* C29 (Origin independent of the snapshot object), as claimed: a write of
\* the caller into the position or image array of the snapshot a tracker
\* was captured from leaves the tracker's Origin as it was.
\* Specification: SpecAlias.
C29_OriginNotAliased ==
    [][last'.op = "modify" => Origin(dyn') = Origin(dyn)]_vars

====
